---- MODULE Spec2Model ----
(***************************************************************************)
(* Snake game of src/app/page.tsx: the React component Page, modelled as   *)
(* a state machine.  One action per event handler (timer callback, key     *)
(* handler, d-pad buttons, Start / End Game / Reset Best buttons).  Each   *)
(* handler runs to completion together with the re-render and the effects  *)
(* it triggers, so every handler reads the state of the last commit.       *)
(*                                                                         *)
(* The updater passed to setSnakeSegments in step() is a closure of the    *)
(* render that created step: movementDirection, foodCell, score and        *)
(* highScore read inside it are the values of the last commit, also after  *)
(* setMovementDirection has been called inside the same updater.           *)
(***************************************************************************)
EXTENDS Integers, Sequences, FiniteSets, TLC

\* Side of the board.  The program uses 20 (page.tsx:11); the model checks a
\* scaled board so that every snake shape on it is explored.
BOARD_SIZE == 3

\* Largest score at which the tick interval is evaluated on its own.
MaxSpeedScore == 60

\* The eating move is not taken once the score has reached MaxScore.
MaxScore == 2

\* Largest numeric high score found in localStorage at startup.
MaxStored == 1

VARIABLES
    snakeSegments,        \* sequence of cells <<x, y>>, tail first, head last
    movementDirection,    \* "up" | "down" | "left" | "right"
    foodCell,             \* cell <<x, y>>
    gameStatus,           \* "idle" | "running" | "over"
    score,
    highScore,
    intervalIdRef,        \* 0 = null, otherwise the period of the interval
    pendingDirectionRef,  \* "none" = null, otherwise a direction
    localStorage,         \* value under LOCAL_STORAGE_KEY
    lastEvent             \* history: the handler that ran last and its branch

vars == <<snakeSegments, movementDirection, foodCell, gameStatus, score,
          highScore, intervalIdRef, pendingDirectionRef, localStorage,
          lastEvent>>

engine == <<snakeSegments, movementDirection, foodCell, gameStatus, score,
            highScore, pendingDirectionRef>>

Direction == {"up", "down", "left", "right"}

GameStatus == {"idle", "running", "over"}

GridCell == (0 .. BOARD_SIZE - 1) \X (0 .. BOARD_SIZE - 1)

Max(a, b) == IF a >= b THEN a ELSE b

Min(a, b) == IF a <= b THEN a ELSE b

\* ---- localStorage -------------------------------------------------------

Absent == [kind |-> "absent", val |-> 0]

NumStr(n) == [kind |-> "num", val |-> n]

Garbage == [kind |-> "text", val |-> 0]

StoredValues == {Absent, Garbage} \cup {NumStr(n) : n \in 0 .. MaxStored}

\* Number(localStorage.getItem(KEY) || 0); -1 stands for NaN
SavedNumber(item) ==
    CASE item.kind = "absent" -> 0
      [] item.kind = "num"    -> item.val
      [] OTHER                -> -1

\* mount effect: if (!Number.isNaN(saved)) setHighScore(saved)
LoadHighScore(item) ==
    IF SavedNumber(item) # -1 THEN SavedNumber(item) ELSE 0

\* ---- pure helpers -------------------------------------------------------

SetOfCells(cells) == {cells[i] : i \in 1 .. Len(cells)}

getRandomEmptyCellNoCheck(occupied) == GridCell

\* the cells getRandomEmptyCell can return
getRandomEmptyCell(occupied) == {c \in GridCell : c \notin occupied}

InitialSnakeHeadLeft ==
    << <<BOARD_SIZE \div 2, BOARD_SIZE \div 2>>,
       <<(BOARD_SIZE \div 2) - 1, BOARD_SIZE \div 2>> >>

InitialSnake ==
    << <<(BOARD_SIZE \div 2) - 1, BOARD_SIZE \div 2>>,
       <<BOARD_SIZE \div 2, BOARD_SIZE \div 2>> >>

NextHead(head, dir) ==
    CASE dir = "up"    -> <<head[1], head[2] - 1>>
      [] dir = "down"  -> <<head[1], head[2] + 1>>
      [] dir = "left"  -> <<head[1] - 1, head[2]>>
      [] dir = "right" -> <<head[1] + 1, head[2]>>
      [] OTHER         -> head

HitsWallNoRightEdge(c) == c[1] < 0 \/ c[2] < 0 \/ c[2] >= BOARD_SIZE

HitsWall(c) ==
    c[1] < 0 \/ c[2] < 0 \/ c[1] >= BOARD_SIZE \/ c[2] >= BOARD_SIZE

HitsSelfNever(currentSnake, c) == FALSE

HitsSelfTailFree(currentSnake, c) ==
    c \in SetOfCells(Tail(currentSnake))

HitsSelf(currentSnake, c) == c \in SetOfCells(currentSnake)

NewSnakeAlwaysShift(currentSnake, nextHead, willEat) ==
    Tail(Append(currentSnake, nextHead))

NewSnake(currentSnake, nextHead, willEat) ==
    IF willEat THEN Append(currentSnake, nextHead)
    ELSE Tail(Append(currentSnake, nextHead))

IsReversalVerticalOnly(current, next) ==
    \/ (current = "up" /\ next = "down")
    \/ (current = "down" /\ next = "up")

IsReversal(current, next) ==
    \/ (current = "up" /\ next = "down")
    \/ (current = "down" /\ next = "up")
    \/ (current = "left" /\ next = "right")
    \/ (current = "right" /\ next = "left")

BeatsHighScoreOrTies(s, h) == s >= h

BeatsHighScore(s, h) == s > h

speedMsTenPointSteps(s) == Max(60, 140 - Min(80, (s \div 10) * 10))

speedMs(s) == Max(60, 140 - Min(80, (s \div 5) * 10))

TimerEffectNoClear(status, s) == speedMs(s)

TimerEffectBaseSpeed(status, s) ==
    IF status # "running" THEN 0 ELSE speedMs(0)

\* timer effect: the interval handle after the render has committed
TimerEffect(status, s) ==
    IF status # "running" THEN 0 ELSE speedMs(s)

\* ---- keyboard -----------------------------------------------------------

Keys == {" ", "Enter", "w", "S", "ArrowLeft", "d", "x"}

ToLowerCase(k) ==
    CASE k = "S"          -> "s"
      [] k = "Enter"      -> "enter"
      [] k = "ArrowUp"    -> "arrowup"
      [] k = "ArrowDown"  -> "arrowdown"
      [] k = "ArrowLeft"  -> "arrowleft"
      [] k = "ArrowRight" -> "arrowright"
      [] OTHER            -> k

KeyDirection(key) ==
    CASE key = "w" \/ key = "arrowup"    -> "up"
      [] key = "s" \/ key = "arrowdown"  -> "down"
      [] key = "a" \/ key = "arrowleft"  -> "left"
      [] key = "d" \/ key = "arrowright" -> "right"
      [] OTHER                           -> "none"

Ev(op, outcome, wrote) == [op |-> op, outcome |-> outcome, wrote |-> wrote]

\* ---- initial state: after the first render and the mount effect ----------

Init ==
    /\ snakeSegments = InitialSnake
    /\ movementDirection = "right"
    /\ foodCell \in getRandomEmptyCell(SetOfCells(InitialSnake))
    /\ gameStatus = "idle"
    /\ score = 0
    /\ localStorage \in StoredValues
    /\ highScore = LoadHighScore(localStorage)
    /\ intervalIdRef = 0
    /\ pendingDirectionRef = "none"
    /\ lastEvent = Ev("mount", "", FALSE)

\* ---- handlers -----------------------------------------------------------

\* the event loop is free: no handler is stuck inside getRandomEmptyCell
Responsive == lastEvent.outcome # "spin"

startGameKeepScore ==
    /\ snakeSegments' = InitialSnake
    /\ movementDirection' = "right"
    /\ foodCell' \in getRandomEmptyCell(SetOfCells(InitialSnake))
    /\ score' = score
    /\ gameStatus' = "running"
    /\ intervalIdRef' = TimerEffect("running", score)
    /\ lastEvent' = Ev("start", "", FALSE)
    /\ UNCHANGED <<highScore, pendingDirectionRef, localStorage>>

\* startGame, reached from the Start / Play Again button or from the keyboard
startGame ==
    /\ snakeSegments' = InitialSnake
    /\ movementDirection' = "right"
    /\ foodCell' \in getRandomEmptyCell(SetOfCells(InitialSnake))
    /\ score' = 0
    /\ gameStatus' = "running"
    /\ intervalIdRef' = TimerEffect("running", 0)
    /\ lastEvent' = Ev("start", "", FALSE)
    /\ UNCHANGED <<highScore, pendingDirectionRef, localStorage>>

StartButton ==
    /\ Responsive
    /\ gameStatus # "running"
    /\ startGame

endGameStoreNoWrite(s, h, item) == item

\* endGame as called from step: the part besides setGameStatus("over")
endGameHigh(s, h) == IF BeatsHighScore(s, h) THEN s ELSE h

endGameStore(s, h, item) == IF BeatsHighScore(s, h) THEN NumStr(s) ELSE item

\* step: the interval callback; maxScore bounds the score of the model
stepUpTo(maxScore) ==
    LET currentSnake == snakeSegments
        commit == pendingDirectionRef # "none"
        head == currentSnake[Len(currentSnake)]
        nextHead == NextHead(head, movementDirection)
        willEat == nextHead = foodCell
        newSnake == NewSnake(currentSnake, nextHead, willEat)
    IN  IF Len(currentSnake) = 0
        THEN /\ lastEvent' = Ev("tick", "empty", FALSE)
             /\ UNCHANGED <<engine, intervalIdRef, localStorage>>
        ELSE
        /\ pendingDirectionRef' = "none"
        /\ movementDirection' =
               IF commit THEN pendingDirectionRef ELSE movementDirection
        /\ IF HitsWall(nextHead) \/ HitsSelf(currentSnake, nextHead)
           THEN /\ snakeSegments' = currentSnake
                /\ gameStatus' = "over"
                /\ highScore' = endGameHigh(score, highScore)
                /\ localStorage' = endGameStore(score, highScore, localStorage)
                /\ lastEvent' = Ev("tick",
                                   IF HitsWall(nextHead) THEN "wall" ELSE "self",
                                   BeatsHighScore(score, highScore))
                /\ UNCHANGED <<foodCell, score>>
           ELSE IF willEat /\ getRandomEmptyCell(SetOfCells(newSnake)) = {}
           THEN \* while (true) never finds a free cell: the updater never
                \* returns, no state is committed, no later event is handled
                /\ lastEvent' = Ev("tick", "spin", FALSE)
                /\ UNCHANGED <<snakeSegments, foodCell, score, gameStatus,
                               highScore, localStorage>>
           ELSE /\ willEat => score < maxScore
                /\ snakeSegments' = newSnake
                /\ IF willEat
                   THEN /\ score' = score + 1
                        /\ foodCell' \in getRandomEmptyCell(SetOfCells(newSnake))
                   ELSE UNCHANGED <<score, foodCell>>
                /\ lastEvent' = Ev("tick", IF willEat THEN "eat" ELSE "move", FALSE)
                /\ UNCHANGED <<gameStatus, highScore, localStorage>>
        /\ intervalIdRef' =
               IF lastEvent'.outcome = "spin" THEN intervalIdRef
               ELSE TimerEffect(gameStatus', score')

step == stepUpTo(MaxScore)

\* a timer period elapses: the callback runs only if an interval is registered
TimerFires(maxScore) ==
    /\ Responsive
    /\ IF intervalIdRef # 0
       THEN stepUpTo(maxScore)
       ELSE /\ lastEvent' = Ev("tick", "notimer", FALSE)
            /\ UNCHANGED <<engine, intervalIdRef, localStorage>>

TimerElapse == TimerFires(MaxScore)

BufferDirectionKeepFirst(current, next) ==
    IF current = "none" THEN next ELSE current

\* pendingDirectionRef.current = next
BufferDirection(current, next) == next

\* history label of a direction request: the direction when it is accepted
InputOutcome(next) ==
    CASE gameStatus # "running" \/ next = "none"  -> "ignored"
      [] IsReversal(movementDirection, next)      -> "reversal"
      [] OTHER                                    -> next

\* keydown handler
KeyDown(k) ==
    /\ Responsive
    /\ IF gameStatus = "idle" /\ (k = " " \/ k = "Enter")
       THEN startGame
       ELSE LET next == KeyDirection(ToLowerCase(k))
                accept == /\ gameStatus = "running"
                          /\ next # "none"
                          /\ ~IsReversal(movementDirection, next)
            IN  /\ pendingDirectionRef' =
                       IF accept
                       THEN BufferDirection(pendingDirectionRef, next)
                       ELSE pendingDirectionRef
                /\ lastEvent' = Ev("direction", InputOutcome(next), FALSE)
                /\ UNCHANGED <<snakeSegments, movementDirection, foodCell,
                               gameStatus, score, highScore, intervalIdRef,
                               localStorage>>

\* d-pad buttons
setDirectionImmediate(next) ==
    LET accept == /\ gameStatus = "running"
                  /\ ~IsReversal(movementDirection, next)
    IN  /\ Responsive
        /\ pendingDirectionRef' =
               IF accept THEN BufferDirection(pendingDirectionRef, next)
               ELSE pendingDirectionRef
        /\ lastEvent' = Ev("direction", InputOutcome(next), FALSE)
        /\ UNCHANGED <<snakeSegments, movementDirection, foodCell, gameStatus,
                       score, highScore, intervalIdRef, localStorage>>

EndGameButtonToIdle ==
    /\ Responsive
    /\ gameStatus = "running"
    /\ gameStatus' = "idle"
    /\ intervalIdRef' = TimerEffect("idle", score)
    /\ lastEvent' = Ev("endButton", "", FALSE)
    /\ UNCHANGED <<snakeSegments, movementDirection, foodCell, score,
                   highScore, pendingDirectionRef, localStorage>>

\* End Game button, rendered while running: onClick = setGameStatus("over")
EndGameButton ==
    /\ Responsive
    /\ gameStatus = "running"
    /\ gameStatus' = "over"
    /\ intervalIdRef' = TimerEffect("over", score)
    /\ lastEvent' = Ev("endButton", "", FALSE)
    /\ UNCHANGED <<snakeSegments, movementDirection, foodCell, score,
                   highScore, pendingDirectionRef, localStorage>>

\* Reset Best button
ResetBest ==
    /\ Responsive
    /\ highScore' = 0
    /\ localStorage' = Absent
    /\ lastEvent' = Ev("resetBest", "", FALSE)
    /\ UNCHANGED <<snakeSegments, movementDirection, foodCell, gameStatus,
                   score, intervalIdRef, pendingDirectionRef>>

Next ==
    \/ StartButton
    \/ TimerElapse
    \/ \E k \in Keys : KeyDown(k)
    \/ \E d \in Direction : setDirectionImmediate(d)
    \/ EndGameButton
    \/ ResetBest

Spec == Init /\ [][Next]_vars

\* ---- the game without the bound on the score ----------------------------

\* no score reaches the number of cells of the board
NoScoreBound == BOARD_SIZE * BOARD_SIZE

TimerElapseFull == TimerFires(NoScoreBound)

NextFull ==
    \/ StartButton
    \/ TimerElapseFull
    \/ \E k \in Keys : KeyDown(k)
    \/ \E d \in Direction : setDirectionImmediate(d)
    \/ EndGameButton
    \/ ResetBest

SpecFull == Init /\ [][NextFull]_vars

\* the interval keeps firing while the page is responsive
SpecFair == SpecFull /\ WF_vars(TimerElapseFull)

\* ---- speedMs on its own: the memo is evaluated for a range of scores ------

SpeedInit ==
    /\ snakeSegments = InitialSnake
    /\ movementDirection = "right"
    /\ foodCell = <<0, 0>>
    /\ gameStatus = "running"
    /\ score \in 0 .. MaxSpeedScore
    /\ localStorage = Absent
    /\ highScore = 0
    /\ intervalIdRef = 0
    /\ pendingDirectionRef = "none"
    /\ lastEvent = Ev("mount", "", FALSE)

\* useMemo computes speedMs for the current score
SpeedEvaluate ==
    /\ intervalIdRef = 0
    /\ intervalIdRef' = speedMs(score)
    /\ lastEvent' = Ev("speedMs", "", FALSE)
    /\ UNCHANGED engine
    /\ UNCHANGED localStorage

\* the score goes up by one and the memo is recomputed
SpeedRecompute ==
    /\ intervalIdRef # 0
    /\ score < MaxSpeedScore
    /\ score' = score + 1
    /\ intervalIdRef' = speedMs(score + 1)
    /\ lastEvent' = Ev("speedMs", "", FALSE)
    /\ UNCHANGED <<snakeSegments, movementDirection, foodCell, gameStatus,
                   highScore, pendingDirectionRef, localStorage>>

SpeedNext == SpeedEvaluate \/ SpeedRecompute

SpecSpeed == SpeedInit /\ [][SpeedNext]_vars

HeadCell(cells) == cells[Len(cells)]

Opposite(d) ==
    CASE d = "up"    -> "down"
      [] d = "down"  -> "up"
      [] d = "left"  -> "right"
      [] d = "right" -> "left"
      [] OTHER       -> "none"

\* the cell the tick of this step is about to move the head to
TickNextHead == NextHead(HeadCell(snakeSegments), movementDirection)

Collides(c) == c \notin GridCell \/ c \in SetOfCells(snakeSegments)

\* the step is a timer callback that ran while the game was running
RunningTick == lastEvent'.op = "tick" /\ gameStatus = "running"

TypeOK ==
    /\ snakeSegments \in Seq(GridCell)
    /\ Len(snakeSegments) >= 2
    /\ movementDirection \in Direction
    /\ foodCell \in GridCell
    /\ gameStatus \in GameStatus
    /\ score \in 0 .. MaxScore
    /\ highScore \in 0 .. Max(MaxScore, MaxStored)
    /\ pendingDirectionRef \in Direction \cup {"none"}
    /\ localStorage \in StoredValues \cup {NumStr(n) : n \in 0 .. MaxScore}

\* ---- claims -------------------------------------------------------------

\* C1: in every reachable state every snake cell lies inside the board and
\* all snake cells are pairwise distinct.
C1_SnakeInBoardDistinct ==
    /\ \A i \in 1 .. Len(snakeSegments) :
          /\ snakeSegments[i][1] \in 0 .. BOARD_SIZE - 1
          /\ snakeSegments[i][2] \in 0 .. BOARD_SIZE - 1
    /\ \A i, j \in 1 .. Len(snakeSegments) :
          i # j => snakeSegments[i] # snakeSegments[j]

C1_Witness ==
    /\ lastEvent.op = "tick"
    /\ lastEvent.outcome = "move"
    /\ Len(snakeSegments) = 4
    /\ HeadCell(snakeSegments)[1] = BOARD_SIZE - 1

\* C2: after start() and after every tick() the food cell is not a snake
\* cell.
C2_FoodOffSnake == foodCell \notin SetOfCells(snakeSegments)

C2_Witness ==
    /\ lastEvent.op = "tick"
    /\ lastEvent.outcome = "eat"
    /\ Len(snakeSegments) = 4

\* C3: a running tick with a pending direction d commits d and makes the
\* move of that same tick in direction d.
C3_PendingUsedInSameTick ==
    [][(RunningTick /\ pendingDirectionRef # "none") =>
          LET d == pendingDirectionRef
              nh == NextHead(HeadCell(snakeSegments), d)
          IN  /\ movementDirection' = d
              /\ IF Collides(nh)
                 THEN gameStatus' = "over" /\ snakeSegments' = snakeSegments
                 ELSE gameStatus' = "running" /\ HeadCell(snakeSegments') = nh
       ]_vars

\* C4: the End Game command sets status over and applies the high-score
\* check, raising and persisting highScore when score > highScore.
C4_EndButtonChecksHighScore ==
    [][lastEvent'.op = "endButton" =>
          /\ gameStatus' = "over"
          /\ highScore' = Max(score, highScore)
          /\ (score > highScore => localStorage' = NumStr(score))
       ]_vars

\* C5: a run that ends by collision with score s and high score h leaves the
\* high score at max(s, h); the store is written with s iff s > h.
C5_CollisionHighScore ==
    [][(RunningTick /\ Collides(TickNextHead)) =>
          /\ highScore' = Max(score, highScore)
          /\ (score > highScore =>
                 localStorage' = NumStr(score) /\ lastEvent'.wrote)
          /\ (score <= highScore =>
                 localStorage' = localStorage /\ ~lastEvent'.wrote)
       ]_vars

C5_Witness ==
    /\ lastEvent.op = "tick"
    /\ lastEvent.outcome \in {"wall", "self"}
    /\ lastEvent.wrote
    /\ score = 2
    /\ highScore = 2
    /\ localStorage = NumStr(2)

\* C6: a tick while status is idle or over changes nothing of snake, active
\* direction, pending direction, food, score, status and high score.
C6_TickNotRunningNoChange ==
    [][(lastEvent'.op = "tick" /\ gameStatus # "running") =>
          UNCHANGED <<snakeSegments, movementDirection, pendingDirectionRef,
                      foodCell, score, gameStatus, highScore>>
       ]_vars

C6_Witness ==
    /\ lastEvent.op = "tick"
    /\ lastEvent.outcome = "notimer"
    /\ gameStatus = "over"
    /\ pendingDirectionRef # "none"

\* C7: a running tick whose next head is outside the board or on a snake
\* cell sets status over and leaves snake, score and food unchanged.
C7_CollisionEndsGame ==
    [][(RunningTick /\ Collides(TickNextHead)) =>
          /\ gameStatus' = "over"
          /\ snakeSegments' = snakeSegments
          /\ score' = score
          /\ foodCell' = foodCell
       ]_vars

C7_Witness ==
    /\ lastEvent.op = "tick"
    /\ lastEvent.outcome = "wall"
    /\ gameStatus = "over"
    /\ HeadCell(snakeSegments)[1] = BOARD_SIZE - 1
    /\ movementDirection = "right"
    /\ score = 1

\* C8: a running tick whose next head is the current tail cell ends the game
\* and leaves the snake unchanged.
C8_TailCellCollides ==
    [][(RunningTick /\ TickNextHead = snakeSegments[1]) =>
          gameStatus' = "over" /\ snakeSegments' = snakeSegments
       ]_vars

C8_Witness ==
    /\ lastEvent.op = "tick"
    /\ lastEvent.outcome = "self"
    /\ gameStatus = "over"
    /\ Len(snakeSegments) = 4
    /\ NextHead(HeadCell(snakeSegments), movementDirection) = snakeSegments[1]

\* C9: a non-colliding running tick onto the food appends the next head,
\* keeps the tail and adds 1 to the score; any other non-colliding tick
\* appends the next head, drops the oldest cell and keeps score and food.
C9_GrowOrMove ==
    [][(RunningTick /\ ~Collides(TickNextHead)) =>
          IF TickNextHead = foodCell
          THEN /\ snakeSegments' = Append(snakeSegments, TickNextHead)
               /\ Len(snakeSegments') = Len(snakeSegments) + 1
               /\ score' = score + 1
          ELSE /\ snakeSegments' =
                     SubSeq(Append(snakeSegments, TickNextHead), 2,
                            Len(snakeSegments) + 1)
               /\ Len(snakeSegments') = Len(snakeSegments)
               /\ score' = score
               /\ foodCell' = foodCell
       ]_vars

C9_Witness ==
    /\ lastEvent.op = "tick"
    /\ lastEvent.outcome = "eat"
    /\ score = 2
    /\ Len(snakeSegments) = 4
    /\ gameStatus = "running"

\* C10: a keyboard or touch direction request for the exact opposite of the
\* active direction never changes the pending direction: no request leaves
\* the opposite of the active direction newly buffered.
C10_ReversalKeepsPending ==
    [][lastEvent'.op = "direction" =>
          \/ pendingDirectionRef' = pendingDirectionRef
          \/ pendingDirectionRef' # Opposite(movementDirection)
       ]_vars

C10_Witness ==
    /\ lastEvent.op = "direction"
    /\ lastEvent.outcome = "reversal"
    /\ pendingDirectionRef \in Direction
    /\ pendingDirectionRef # movementDirection

\* a step in which a direction request was accepted
AcceptStep == lastEvent'.op = "direction" /\ lastEvent'.outcome \in Direction

\* C11: between two ticks the active direction never changes; a tick
\* commits the buffered direction, which is the last accepted request, and
\* leaves the pending slot empty.
C11_OneCommitPerTickLastWins ==
    [][/\ (movementDirection' # movementDirection =>
              lastEvent'.op \in {"tick", "start"})
       /\ (AcceptStep => pendingDirectionRef' = lastEvent'.outcome)
       /\ (lastEvent'.op # "tick" /\ ~AcceptStep =>
              pendingDirectionRef' = pendingDirectionRef)
       /\ (RunningTick =>
              /\ pendingDirectionRef' = "none"
              /\ movementDirection' =
                     IF pendingDirectionRef \in Direction
                     THEN pendingDirectionRef ELSE movementDirection)
      ]_vars

\* a tick has just committed "up" while the head made its move to the right
C11_Witness ==
    /\ lastEvent.op = "tick"
    /\ lastEvent.outcome = "move"
    /\ gameStatus = "running"
    /\ pendingDirectionRef = "none"
    /\ movementDirection = "up"
    /\ HeadCell(snakeSegments) =
           NextHead(snakeSegments[Len(snakeSegments) - 1], "right")

\* C12: start() yields the snake [(N/2-1, N/2), (N/2, N/2)], direction
\* right, score 0, status running and a food cell off that snake.
C12_StartState ==
    [][lastEvent'.op = "start" =>
          /\ gameStatus \in {"idle", "over"}
          /\ Len(snakeSegments') = 2
          /\ snakeSegments'[1] = <<(BOARD_SIZE \div 2) - 1, BOARD_SIZE \div 2>>
          /\ snakeSegments'[2] = <<BOARD_SIZE \div 2, BOARD_SIZE \div 2>>
          /\ movementDirection' = "right"
          /\ score' = 0
          /\ gameStatus' = "running"
          /\ foodCell' \in GridCell
          /\ foodCell' # snakeSegments'[1]
          /\ foodCell' # snakeSegments'[2]
      ]_vars

C12_Witness ==
    /\ lastEvent.op = "start"
    /\ gameStatus = "running"
    /\ movementDirection = "right"
    /\ highScore = 2
    /\ foodCell = <<0, 0>>

\* C13: status changes only idle -> running and over -> running by start,
\* and running -> over by a collision tick or the End Game command.
C13_StatusTransitions ==
    [][gameStatus' # gameStatus =>
          \/ /\ gameStatus \in {"idle", "over"}
             /\ gameStatus' = "running"
             /\ lastEvent'.op = "start"
          \/ /\ gameStatus = "running"
             /\ gameStatus' = "over"
             /\ \/ lastEvent'.op = "endButton"
                \/ lastEvent'.op = "tick" /\ lastEvent'.outcome \in {"wall", "self"}
      ]_vars

\* a restart: a direction buffered in an earlier run is still there
C13_Witness ==
    /\ lastEvent.op = "start"
    /\ gameStatus = "running"
    /\ pendingDirectionRef = "down"

\* C14: the score never decreases except by start(), which sets it to 0.
C14_ScoreMonotone ==
    [][/\ (score' < score => lastEvent'.op = "start")
       /\ (lastEvent'.op = "start" => score' = 0)
      ]_vars

C14_Witness ==
    /\ lastEvent.op = "start"
    /\ score = 0
    /\ localStorage = NumStr(2)
    /\ highScore = 2
    /\ pendingDirectionRef = "none"

\* C18: while running, the pending direction is never the exact opposite of
\* the active direction, also after a restart.
C18_PendingNeverOpposite ==
    gameStatus = "running" =>
        \/ pendingDirectionRef = "none"
        \/ pendingDirectionRef # Opposite(movementDirection)

\* the value a reload would read back from localStorage
PersistedHighScore ==
    IF localStorage.kind = "num" THEN localStorage.val ELSE 0

\* C19: the persisted high score (0 when nothing usable is stored) equals
\* the in-memory highScore in every reachable state.
C19_PersistedMatchesMemory == highScore = PersistedHighScore

C19_Witness ==
    /\ lastEvent.op = "tick"
    /\ lastEvent.wrote
    /\ gameStatus = "over"
    /\ highScore = 1
    /\ localStorage = NumStr(1)
    /\ score = 1

\* the tick interval the scheduler has to use at a score
ExpectedInterval(s) == IF s >= 40 THEN 60 ELSE 140 - 10 * (s \div 5)

\* C15: an interval is registered exactly while status is running, its
\* period is the tick interval of the current score, and no tick callback
\* runs while status is not running.
C15_TimerFollowsStatusAndScore ==
    /\ [](intervalIdRef =
              IF gameStatus = "running" THEN ExpectedInterval(score) ELSE 0)
    /\ [][(lastEvent'.op = "tick" /\ gameStatus # "running") =>
              lastEvent'.outcome = "notimer"]_vars

C15_Witness ==
    /\ lastEvent.op = "tick"
    /\ lastEvent.outcome = "eat"
    /\ gameStatus = "running"
    /\ score = 5
    /\ intervalIdRef = 130

\* C16: the tick interval is max(60, 140 - min(80, floor(score/5)*10)): in
\* [60, 140], non-increasing in the score, 130 at score 7, 60 from score 40.
C16_SpeedFormula ==
    /\ [](intervalIdRef # 0 =>
              /\ intervalIdRef = ExpectedInterval(score)
              /\ intervalIdRef >= 60
              /\ intervalIdRef <= 140
              /\ (score = 7 => intervalIdRef = 130)
              /\ (score = 50 => intervalIdRef = 60)
              /\ (score >= 40 => intervalIdRef = 60))
    /\ [][(intervalIdRef # 0 /\ score' > score) =>
              intervalIdRef' <= intervalIdRef]_vars

C16_Witness ==
    /\ lastEvent.op = "speedMs"
    /\ score = 50
    /\ intervalIdRef = 60

\* C17: every tick in status running terminates, also the growing move
\* after which the snake covers the whole board.
C17_EveryTickTerminates ==
    ~(lastEvent.op = "tick" /\ lastEvent.outcome = "spin")

\* C20: with the timer firing fairly, if from some point on no direction
\* request is accepted, a running game eventually reaches status over.
C20_RunningLeadsToOver ==
    \/ []<><<AcceptStep>>_vars
    \/ [](gameStatus = "running" => <>(gameStatus = "over"))

====
